---- MODULE Spec2Model ----
(***************************************************************************)
(* A model of pdf-extractor-api: the upload/extraction pipeline            *)
(* (app/controllers/pdf_controller.py, app/services/pdf_service.py), the   *)
(* summarization adapter (app/services/llm_service.py), the retention      *)
(* sweeper and the application lifecycle (app/main.py).                    *)
(*                                                                         *)
(* Strings the code inspects character by character (the upload filename,  *)
(* the provider name) are sequences of one-character strings; every other  *)
(* string is a TLA+ string.                                                *)
(***************************************************************************)
EXTENDS Integers, Sequences, FiniteSets, TLC

VARIABLES
    settings,   \* app.config.settings: the LLM fields the adapter reads
    _llm,       \* LLMService._llm, the cached backend handle (NoLLM = None)
    nbuilt,     \* how many backend instances have been constructed so far
    llmCall,    \* the last LLMService call: what it used and returned
    file_cleanup_worker,  \* the sweeper: scheduler.running and its jobs
    appPhase,   \* the application: "created", "started" (startup ran), "stopped"
    workerCall, \* the last start()/stop() call on the sweeper
    clock,      \* wall-clock time, in minutes
    files,      \* the files in the upload and image folders
    lastSweep,  \* the last sweep: when it ran, the ages of the files it removed,
                \* the names of those whose removal failed
    documents,      \* the Document rows, in insertion order
    text_contents,  \* the TextPage rows
    tables,         \* the Table rows
    images,         \* the Image rows
    requests,       \* the POST /extract requests: where each is, and its response
    loop,           \* the request whose handler occupies the event loop (0: none)
    readResp        \* the response of the last GET /documents[/{id}] request, while
                    \* no upload has acted since

llmVars == <<settings, _llm, nbuilt, llmCall>>
workerVars == <<file_cleanup_worker, appPhase, workerCall>>
fileVars == <<clock, files, lastSweep>>
dbVars == <<documents, text_contents, tables, images>>
pdfVars == <<documents, text_contents, tables, images, requests, loop, readResp>>
vars == <<settings, _llm, nbuilt, llmCall, file_cleanup_worker, appPhase, workerCall,
          clock, files, lastSweep, documents, text_contents, tables, images,
          requests, loop, readResp>>

-----------------------------------------------------------------------------
(* str.lower() and str.endswith()                                          *)

UpperChars == <<"A","B","C","D","E","F","G","H","I","J","K","L","M",
                "N","O","P","Q","R","S","T","U","V","W","X","Y","Z">>
LowerChars == <<"a","b","c","d","e","f","g","h","i","j","k","l","m",
                "n","o","p","q","r","s","t","u","v","w","x","y","z">>

LowerChar(c) ==
    IF \E i \in DOMAIN UpperChars : UpperChars[i] = c
    THEN LowerChars[CHOOSE i \in DOMAIN UpperChars : UpperChars[i] = c]
    ELSE c

lower(s) == [i \in DOMAIN s |-> LowerChar(s[i])]

endswith(s, suffix) ==
    /\ Len(s) >= Len(suffix)
    /\ SubSeq(s, Len(s) - Len(suffix) + 1, Len(s)) = suffix

-----------------------------------------------------------------------------
(* LLMService: provider selection and the cached handle                    *)

\* How many backend instances a run may construct.
MaxBuilds == 2

NoLLM == [kind |-> "none"]

OLLAMA == <<"o","l","l","a","m","a">>
OPENROUTER == <<"o","p","e","n","r","o","u","t","e","r">>

\* Values LLM_PROVIDER is given: both names, in other letter cases too, and a
\* name that is neither.
ProviderNames ==
    { OLLAMA, <<"O","l","l","a","m","a">>,
      OPENROUTER, <<"O","p","e","n","R","o","u","t","e","r">>,
      <<"g","p","t">> }

SettingsSet ==
    [ LLM_PROVIDER : ProviderNames,
      OLLAMA_MODEL : {"llama3.2", "mistral"},
      OPENROUTER_API_KEY : {"", "sk-1"},
      OPENROUTER_MODEL : {"meta-llama/llama-3.1-8b-instruct:free"} ]

DefaultSettings ==
    [ LLM_PROVIDER |-> OLLAMA,
      OLLAMA_MODEL |-> "llama3.2",
      OPENROUTER_API_KEY |-> "",
      OPENROUTER_MODEL |-> "meta-llama/llama-3.1-8b-instruct:free" ]

\* ChatOllama(base_url, model) / ChatOpenAI(api_key, base_url, model): a new
\* object, told apart from every earlier one by its serial.
ChatOllama(s, serial) ==
    [kind |-> "ollama", model |-> s.OLLAMA_MODEL, api_key |-> "", serial |-> serial]

ChatOpenAI(s, serial) ==
    [kind |-> "openrouter", model |-> s.OPENROUTER_MODEL,
     api_key |-> s.OPENROUTER_API_KEY, serial |-> serial]

\* A variant of get_llm that rebuilds the backend when the settings no longer
\* match the cached one.
get_llm_follow_settings(cache, s, serial) ==
    LET provider == lower(s.LLM_PROVIDER)
        stale == \/ cache = NoLLM
                 \/ cache.kind = "ollama" /\ (provider # OLLAMA \/ cache.model # s.OLLAMA_MODEL)
                 \/ cache.kind = "openrouter" /\ (provider # OPENROUTER
                                                  \/ cache.api_key # s.OPENROUTER_API_KEY)
    IN  IF ~stale
        THEN [raised |-> FALSE, error |-> "", llm |-> cache, cache |-> cache]
        ELSE IF provider = OLLAMA
        THEN [raised |-> FALSE, error |-> "", llm |-> ChatOllama(s, serial),
              cache |-> ChatOllama(s, serial)]
        ELSE IF provider = OPENROUTER /\ s.OPENROUTER_API_KEY # ""
        THEN [raised |-> FALSE, error |-> "", llm |-> ChatOpenAI(s, serial),
              cache |-> ChatOpenAI(s, serial)]
        ELSE [raised |-> TRUE, error |-> "ValueError", llm |-> NoLLM, cache |-> cache]

\* A variant of get_llm that assigns cls._llm before it validates: a
\* construction that raises leaves an unusable handle behind.
get_llm_caching_failure(cache, s, serial) ==
    LET provider == lower(s.LLM_PROVIDER)
        broken == [kind |-> "broken", model |-> "", api_key |-> "", serial |-> serial]
    IN  IF cache # NoLLM
        THEN [raised |-> FALSE, error |-> "", llm |-> cache, cache |-> cache]
        ELSE IF provider = OLLAMA
        THEN [raised |-> FALSE, error |-> "", llm |-> ChatOllama(s, serial),
              cache |-> ChatOllama(s, serial)]
        ELSE IF provider = OPENROUTER /\ s.OPENROUTER_API_KEY # ""
        THEN [raised |-> FALSE, error |-> "", llm |-> ChatOpenAI(s, serial),
              cache |-> ChatOpenAI(s, serial)]
        ELSE [raised |-> TRUE, error |-> "ValueError", llm |-> NoLLM, cache |-> broken]

\* LLMService.get_llm: what the call returns or raises, and the value of
\* cls._llm after it.
get_llm(cache, s, serial) ==
    LET provider == lower(s.LLM_PROVIDER)
    IN  IF cache # NoLLM
        THEN [raised |-> FALSE, error |-> "", llm |-> cache, cache |-> cache]
        ELSE IF provider = OLLAMA
        THEN [raised |-> FALSE, error |-> "", llm |-> ChatOllama(s, serial),
              cache |-> ChatOllama(s, serial)]
        ELSE IF provider = OPENROUTER
        THEN IF s.OPENROUTER_API_KEY = ""
             THEN [raised |-> TRUE,
                   error |-> "OPENROUTER_API_KEY is required when using OpenRouter provider",
                   llm |-> NoLLM, cache |-> cache]
             ELSE [raised |-> FALSE, error |-> "", llm |-> ChatOpenAI(s, serial),
                   cache |-> ChatOpenAI(s, serial)]
        ELSE [raised |-> TRUE, error |-> "Unsupported LLM provider",
              llm |-> NoLLM, cache |-> cache]

\* The serial the next constructed backend gets, and whether one was built.
Built(cache, r) == r.cache # cache
CanBuild == nbuilt < MaxBuilds

\* A variant of summarize_text that returns the error text as the summary.
summarize_text_error_text(cache, s, serial, text, invokeOk) ==
    IF text = ""
    THEN [summary |-> "", used |-> NoLLM, invoked |-> FALSE, cache |-> cache]
    ELSE LET g == get_llm(cache, s, serial)
         IN  IF g.raised
             THEN [summary |-> g.error, used |-> NoLLM, invoked |-> FALSE, cache |-> g.cache]
             ELSE IF invokeOk
             THEN [summary |-> "summary", used |-> g.llm, invoked |-> TRUE, cache |-> g.cache]
             ELSE [summary |-> "ConnectionError", used |-> g.llm, invoked |-> TRUE,
                   cache |-> g.cache]

\* LLMService.summarize_text. text is "" when `not text or not text.strip()`;
\* invokeOk says whether llm.invoke(messages) returns; summary "" is None.
summarize_text(cache, s, serial, text, invokeOk) ==
    IF text = ""
    THEN [summary |-> "", used |-> NoLLM, invoked |-> FALSE, cache |-> cache]
    ELSE LET g == get_llm(cache, s, serial)
         IN  IF g.raised
             THEN [summary |-> "", used |-> NoLLM, invoked |-> FALSE, cache |-> g.cache]
             ELSE IF invokeOk
             THEN [summary |-> "summary", used |-> g.llm, invoked |-> TRUE, cache |-> g.cache]
             ELSE [summary |-> "", used |-> g.llm, invoked |-> TRUE, cache |-> g.cache]

\* LLMService.is_available.
is_available(cache, s, serial) ==
    LET g == get_llm(cache, s, serial)
    IN  IF g.raised
        THEN [available |-> FALSE, used |-> NoLLM, cache |-> g.cache]
        ELSE [available |-> g.llm # NoLLM, used |-> g.llm, cache |-> g.cache]

\* arg is the text a summarize_text call was given; result "" is None.
NoCall == [op |-> "none", arg |-> "", used |-> NoLLM, raised |-> FALSE, result |-> ""]

\* A caller invokes LLMService.get_llm().
GetLLM ==
    LET g == get_llm(_llm, settings, nbuilt + 1)
    IN  /\ Built(_llm, g) => CanBuild
        /\ _llm' = g.cache
        /\ nbuilt' = IF Built(_llm, g) THEN nbuilt + 1 ELSE nbuilt
        /\ llmCall' = [op |-> "get_llm", arg |-> "", used |-> g.llm, raised |-> g.raised,
                       result |-> g.error]
        /\ UNCHANGED <<settings, workerVars, fileVars, pdfVars>>

\* LLMService.reset_llm().
ResetLLM ==
    /\ _llm' = NoLLM
    /\ llmCall' = [op |-> "reset_llm", arg |-> "", used |-> NoLLM, raised |-> FALSE, result |-> ""]
    /\ UNCHANGED <<settings, nbuilt, workerVars, fileVars, pdfVars>>

\* A caller invokes LLMService.summarize_text(text).
SummarizeText ==
    \E text \in {"", "Page 1:\nhello"}, invokeOk \in BOOLEAN :
        LET r == summarize_text(_llm, settings, nbuilt + 1, text, invokeOk)
        IN  /\ Built(_llm, r) => CanBuild
            /\ _llm' = r.cache
            /\ nbuilt' = IF Built(_llm, r) THEN nbuilt + 1 ELSE nbuilt
            /\ llmCall' = [op |-> "summarize_text", arg |-> text, used |-> r.used,
                           raised |-> FALSE, result |-> r.summary]
            /\ UNCHANGED <<settings, workerVars, fileVars, pdfVars>>

\* GET /llm/status: get_llm_status awaits LLMService.is_available().
GetLLMStatus ==
    LET r == is_available(_llm, settings, nbuilt + 1)
    IN  /\ Built(_llm, r) => CanBuild
        /\ _llm' = r.cache
        /\ nbuilt' = IF Built(_llm, r) THEN nbuilt + 1 ELSE nbuilt
        /\ llmCall' = [op |-> "is_available", arg |-> "", used |-> r.used, raised |-> FALSE,
                       result |-> IF r.available THEN "true" ELSE "false"]
        /\ UNCHANGED <<settings, workerVars, fileVars, pdfVars>>

\* The LLM settings are given other values (the settings object is mutable).
ChangeSettings ==
    \E s \in SettingsSet :
        /\ s # settings
        /\ settings' = s
        /\ llmCall' = [op |-> "configure", arg |-> "", used |-> NoLLM, raised |-> FALSE, result |-> ""]
        /\ UNCHANGED <<_llm, nbuilt, workerVars, fileVars, pdfVars>>

LLMAtImport ==
    /\ settings = DefaultSettings
    /\ _llm = NoLLM
    /\ nbuilt = 0
    /\ llmCall = NoCall


-----------------------------------------------------------------------------
(* The upload pipeline: POST /extract (pdf_controller.extract_pdf) and     *)
(* PDFService.process_pdf, with the storage layer it writes to             *)

\* How many POST /extract requests a run holds.
MaxReqs == 2
\* The most pages an uploaded PDF has.
MaxPages == 2

ReqIds == 1..MaxReqs

PDF_SUFFIX == <<".","p","d","f">>

\* Upload filenames: a PDF name in mixed letter case, and names that are not
\* PDF names.
Filenames ==
    { <<"a",".","P","d","F">>, <<"a",".","t","x","t">>, <<"p","d","f">> }

\* An uploaded PDF: per page, how many embedded images and tables it has.
Page(i, t) == [images |-> i, tables |-> t]

\* The PDFs uploaded: every number of pages up to MaxPages, each page with
\* nothing but text or with an image and two tables.
PdfPages == {Page(0, 0), Page(1, 2)}
Pdfs == UNION {[1..n -> PdfPages] : n \in 0..MaxPages}

API_PREFIX == "/api/v1"
ImageExt == "png"
PageText == "lorem"

\* f"Page {page_num + 1}"
PageLabel(n) == "Page " \o ToString(n)

\* The page number a label "Page N" carries.
PageNumber(label) == CHOOSE n \in 1..(MaxPages + 2) : PageLabel(n) = label

\* app.database.models.generate_uuid: the n-th identifier generated.
generate_uuid(n) == "doc" \o ToString(n)

\* app.utils.file_utils.get_image_url
get_image_url(filename) == API_PREFIX \o "/images/" \o filename

\* f"{document_id}_page_{page_num + 1}_image_{img_index + 1}.{image_ext}"
image_filename(document_id, page, index, ext) ==
    document_id \o "_page_" \o ToString(page) \o "_image_" \o ToString(index)
        \o "." \o ext

\* The embedded images of a PDF in the order the page loop meets them, as
\* <<page, index>> pairs.
RECURSIVE ImagesFrom(_, _)
ImagesFrom(pdf, p) ==
    IF p > Len(pdf)
    THEN <<>>
    ELSE [i \in 1..pdf[p].images |-> <<p, i>>] \o ImagesFrom(pdf, p + 1)

ImageLink(document_id, slot) ==
    LET name == image_filename(document_id, slot[1], slot[2], ImageExt)
    IN  [url |-> get_image_url(name), page |-> slot[1], index |-> slot[2],
         filename |-> name, document_id |-> document_id]

\* What goes wrong in an extraction: nothing, fitz.open raises, pdfplumber
\* raises, or (k > 0) the decode or save of the k-th image raises.
NoFailure == 0
OpenFails == -1
TablesFail == -2

\* PDFService.extract_text_and_images. saved are the image links whose
\* files were written before the call ended.
extract_text_and_images(pdf, document_id, failure) ==
    LET slots == ImagesFrom(pdf, 1)
        links == [k \in 1..Len(slots) |-> ImageLink(document_id, slots[k])]
    IN  IF failure = OpenFails
        THEN [raised |-> TRUE, error |-> "cannot open file", saved |-> <<>>,
              text_data |-> <<>>, image_links |-> <<>>]
        ELSE IF failure > 0
        THEN [raised |-> TRUE, error |-> "cannot identify image file",
              saved |-> SubSeq(links, 1, failure - 1),
              text_data |-> <<>>, image_links |-> <<>>]
        ELSE [raised |-> FALSE, error |-> "", saved |-> links,
              text_data |-> [l \in {PageLabel(n) : n \in 1..Len(pdf)} |-> PageText],
              image_links |-> links]

\* One extracted table: a grid of cells (here one row naming the table).
Grid(p, k) == << <<ToString(p), ToString(k)>> >>

\* PDFService.extract_tables: pages without tables get no entry.
extract_tables(pdf, failure) ==
    IF failure = TablesFail
    THEN [raised |-> TRUE, error |-> "table extraction failed", table_data |-> <<>>]
    ELSE [raised |-> FALSE, error |-> "",
          table_data |->
              [l \in {PageLabel(n) : n \in {m \in 1..Len(pdf) : pdf[m].tables > 0}} |->
                  [k \in 1..pdf[PageNumber(l)].tables |-> Grid(PageNumber(l), k)]]]

\* json.dumps / json.loads of a table grid.
json_dumps(grid) == [json |-> grid]
json_loads(text) == text.json

\* PDFRepository.create_document
create_document(docs, file_info, now) ==
    Append(docs, [id |-> generate_uuid(Len(docs) + 1),
                  filename |-> file_info.stored,
                  original_filename |-> file_info.filename,
                  created_at |-> now, updated_at |-> now])

\* PDFRepository.save_text_content: one TextPage row per page.
save_text_content(rows, document_id, pages) ==
    rows \cup {[document_id |-> document_id, page_number |-> PageNumber(l),
                content |-> pages[l]] : l \in DOMAIN pages}

\* PDFRepository.save_images: one Image row per image link.
save_images(rows, document_id, links) ==
    rows \cup {[document_id |-> document_id, page_number |-> links[k].page,
                image_index |-> links[k].index, filename |-> links[k].filename]
               : k \in DOMAIN links}

\* PDFRepository.save_tables: one Table row per table, indexed from 0 within
\* its page, the grid serialized.
save_tables(rows, document_id, pages) ==
    rows \cup UNION {
        {[document_id |-> document_id, page_number |-> PageNumber(l),
          table_index |-> k - 1, table_data |-> json_dumps(pages[l][k])]
         : k \in DOMAIN pages[l]} : l \in DOMAIN pages}

NoResult == [id |-> ""]
NoRead == [op |-> "none"]

NewRequest ==
    [pc |-> "new", filename |-> <<>>, include_summary |-> FALSE,
     file_info |-> [filename |-> <<>>, stored |-> ""],
     document_id |-> "", text_data |-> <<>>, image_links |-> <<>>,
     table_data |-> <<>>, summary |-> "", llm |-> "not called",
     error |-> "", status |-> 0, detail |-> "", result |-> NoResult]

\* The response to the upload is out: the handler is over.
Respond(reqs, r, status, detail, result) ==
    [reqs EXCEPT ![r].pc = "done", ![r].status = status, ![r].detail = detail,
                 ![r].result = result, ![r].text_data = <<>>,
                 ![r].image_links = <<>>, ![r].table_data = <<>>, ![r].summary = ""]

\* A variant of the handler's except clause that lets the failure through to
\* the request middleware, which answers 500.
extract_pdf_error_unhandled(e) ==
    [status |-> 500, detail |-> "Internal server error"]

\* extract_pdf's `except Exception as e`: 400 with the error text.
extract_pdf_error(e) ==
    [status |-> 400, detail |-> "Error processing PDF: " \o e]

\* The step of request r raised e inside the handler's try block.
Fail(reqs, r, e) ==
    LET resp == extract_pdf_error(e)
    IN  Respond([reqs EXCEPT ![r].error = e], r, resp.status, resp.detail, NoResult)

\* A variant of the extension check that forgets the dot.
extension_ok_without_dot(filename) ==
    endswith(lower(filename), <<"p","d","f">>)

\* file.filename.lower().endswith('.pdf')
extension_ok(filename) ==
    endswith(lower(filename), PDF_SUFFIX)

\* POST /extract arrives: the handler validates the extension and, for a PDF
\* name, awaits save_upload_file.
extract_pdf(r) ==
    /\ requests[r].pc = "new"
    /\ \A q \in 1..(r - 1) : requests[q].pc # "new"
    /\ loop = 0
    /\ \E filename \in Filenames, include_summary \in BOOLEAN :
          LET reqs == [requests EXCEPT ![r].filename = filename,
                                       ![r].include_summary = include_summary]
          IN  IF ~extension_ok(filename)
              THEN requests' = [reqs EXCEPT ![r].pc = "done", ![r].status = 400,
                                   ![r].detail = "Only PDF files are supported."]
              ELSE requests' = [reqs EXCEPT ![r].pc = "saving"]
    /\ readResp' = NoRead
    /\ UNCHANGED <<loop, dbVars, llmVars, workerVars, fileVars>>

\* Writing a file of this name into a folder now (an existing file of the
\* name is overwritten).
WriteFiles(folder, names) ==
    {f \in files : ~(f.folder = folder /\ f.name \in names)}
        \cup {[folder |-> folder, name |-> n, mtime |-> clock] : n \in names}

\* app.utils.file_utils.save_upload_file returns (the upload is on disk under
\* a system-assigned name) or raises; the handler then runs on, into
\* process_pdf, without giving the event loop up again.
save_upload_file(r) ==
    /\ requests[r].pc = "saving"
    /\ loop = 0
    /\ \E ok \in BOOLEAN :
          IF ok
          THEN LET stored == "upload" \o ToString(r) \o ".pdf"
               IN  /\ files' = WriteFiles("uploads", {stored})
                   /\ requests' = [requests EXCEPT
                          ![r].pc = "saved",
                          ![r].file_info = [filename |-> requests[r].filename,
                                            stored |-> stored]]
                   /\ loop' = r
          ELSE /\ requests' = Fail(requests, r, "cannot write upload")
               /\ UNCHANGED <<files, loop>>
    /\ readResp' = NoRead
    /\ UNCHANGED <<clock, lastSweep, dbVars, llmVars, workerVars>>

\* process_pdf: PDFRepository.create_document(db, file_info).
process_pdf_create(r) ==
    /\ requests[r].pc = "saved"
    /\ loop = r
    /\ \E ok \in BOOLEAN :
          IF ok
          THEN /\ documents' = create_document(documents, requests[r].file_info, clock)
               /\ requests' = [requests EXCEPT
                      ![r].pc = "created",
                      ![r].document_id = documents'[Len(documents')].id]
               /\ UNCHANGED loop
          ELSE /\ requests' = Fail(requests, r, "database is unavailable")
               /\ loop' = 0
               /\ UNCHANGED documents
    /\ readResp' = NoRead
    /\ UNCHANGED <<text_contents, tables, images, llmVars, workerVars, fileVars>>

\* The failures the extraction of a PDF can meet.
ExtractFailures(pdf) ==
    {NoFailure, OpenFails, TablesFail} \cup (1..Len(ImagesFrom(pdf, 1)))

\* process_pdf: extract_text_and_images, then extract_tables. What the
\* uploaded bytes hold shows here, where they are first read.
process_pdf_extract(r) ==
    /\ requests[r].pc = "created"
    /\ loop = r
    /\ \E pdf \in Pdfs : \E failure \in ExtractFailures(pdf) :
          LET ti == extract_text_and_images(pdf, requests[r].document_id, failure)
              tb == extract_tables(pdf, failure)
          IN  /\ files' = WriteFiles("images",
                              {ti.saved[k].filename : k \in DOMAIN ti.saved})
              /\ IF ti.raised
                 THEN requests' = Fail(requests, r, ti.error) /\ loop' = 0
                 ELSE IF tb.raised
                 THEN requests' = Fail(requests, r, tb.error) /\ loop' = 0
                 ELSE /\ requests' = [requests EXCEPT
                             ![r].pc = "extracted",
                             ![r].text_data = ti.text_data,
                             ![r].image_links = ti.image_links,
                             ![r].table_data = tb.table_data]
                      /\ UNCHANGED loop
    /\ readResp' = NoRead
    /\ UNCHANGED <<clock, lastSweep, dbVars, llmVars, workerVars>>

\* process_pdf: save_text_content, save_images and, when there are tables,
\* save_tables; the first of them to raise ends the request.
process_pdf_save(r) ==
    /\ requests[r].pc = "extracted"
    /\ loop = r
    /\ LET id == requests[r].document_id
           hasTables == DOMAIN requests[r].table_data # {}
       IN  \E failure \in {"none", "text", "images"}
                            \cup (IF hasTables THEN {"tables"} ELSE {}) :
              /\ text_contents' =
                    IF failure = "text" THEN text_contents
                    ELSE save_text_content(text_contents, id, requests[r].text_data)
              /\ images' =
                    IF failure \in {"text", "images"} THEN images
                    ELSE save_images(images, id, requests[r].image_links)
              /\ tables' =
                    IF failure # "none" \/ ~hasTables THEN tables
                    ELSE save_tables(tables, id, requests[r].table_data)
              /\ IF failure = "none"
                 THEN /\ requests' = [requests EXCEPT ![r].pc = "persisted"]
                      /\ UNCHANGED loop
                 ELSE /\ requests' = Fail(requests, r, "cannot save " \o failure)
                      /\ loop' = 0
    /\ readResp' = NoRead
    /\ UNCHANGED <<documents, llmVars, workerVars, fileVars>>

\* "\n\n".join(f"{page_name}:\n{content}" ...): empty exactly when there is
\* no page.
full_text(text_data) ==
    IF DOMAIN text_data = {} THEN "" ELSE "Page 1:\nlorem"

\* The PDFExtractResponse process_pdf returns.
PDFExtractResponse(reqs, r, summary) ==
    [id |-> reqs[r].document_id,
     filename |-> reqs[r].file_info.filename,
     text |-> reqs[r].text_data,
     tables |-> reqs[r].table_data,
     images |-> reqs[r].image_links,
     summary |-> summary,
     created_at |-> (CHOOSE d \in {documents[i] : i \in DOMAIN documents} :
                        d.id = reqs[r].document_id).created_at]

\* extract_pdf after process_pdf returned: the `if not result.id` guard, then
\* the result as the response.
extract_pdf_return(reqs, r, summary) ==
    IF reqs[r].document_id = ""
    THEN Fail(reqs, r, "500: Failed to generate document ID")
    ELSE Respond(reqs, r, 200, "", PDFExtractResponse(reqs, r, summary))

\* A variant of process_pdf that turns to the summary as soon as the
\* extraction is over, before the rows are saved.
process_pdf_summary_before_save(r) ==
    /\ requests[r].pc = "extracted"
    /\ loop = r
    /\ IF ~requests[r].include_summary
       THEN /\ requests' = extract_pdf_return(requests, r, "")
            /\ loop' = 0
            /\ UNCHANGED llmVars
       ELSE \E invokeOk \in BOOLEAN :
              LET text == full_text(requests[r].text_data)
                  s == summarize_text(_llm, settings, nbuilt + 1, text, invokeOk)
                  how == IF text = "" THEN "no text"
                         ELSE IF ~s.invoked THEN "no backend"
                         ELSE IF invokeOk THEN "invoked" ELSE "invoke raised"
                  reqs == [requests EXCEPT ![r].llm = how, ![r].summary = s.summary]
              IN  /\ Built(_llm, s) => CanBuild
                  /\ _llm' = s.cache
                  /\ nbuilt' = IF Built(_llm, s) THEN nbuilt + 1 ELSE nbuilt
                  /\ llmCall' = IF text = "" THEN llmCall
                                 ELSE [op |-> "summarize_text", arg |-> text,
                                       used |-> s.used, raised |-> FALSE,
                                       result |-> s.summary]
                  /\ UNCHANGED settings
                  /\ IF s.invoked
                     THEN /\ requests' = [reqs EXCEPT ![r].pc = "invoking"]
                          /\ UNCHANGED loop
                     ELSE /\ requests' = extract_pdf_return(reqs, r, s.summary)
                          /\ loop' = 0
    /\ readResp' = NoRead
    /\ UNCHANGED <<dbVars, workerVars, fileVars>>

\* process_pdf: the summary, when requested. generate_summary returns None
\* for no text; otherwise LLMService.summarize_text selects the backend and
\* invokes it, and the handler waits inside llm.invoke.
process_pdf_summary(r) ==
    /\ requests[r].pc = "persisted"
    /\ loop = r
    /\ IF ~requests[r].include_summary
       THEN /\ requests' = extract_pdf_return(requests, r, "")
            /\ loop' = 0
            /\ UNCHANGED llmVars
       ELSE \E invokeOk \in BOOLEAN :
              LET text == full_text(requests[r].text_data)
                  s == summarize_text(_llm, settings, nbuilt + 1, text, invokeOk)
                  how == IF text = "" THEN "no text"
                         ELSE IF ~s.invoked THEN "no backend"
                         ELSE IF invokeOk THEN "invoked" ELSE "invoke raised"
                  reqs == [requests EXCEPT ![r].llm = how, ![r].summary = s.summary]
              IN  /\ Built(_llm, s) => CanBuild
                  /\ _llm' = s.cache
                  /\ nbuilt' = IF Built(_llm, s) THEN nbuilt + 1 ELSE nbuilt
                  /\ llmCall' = IF text = "" THEN llmCall
                                 ELSE [op |-> "summarize_text", arg |-> text,
                                       used |-> s.used, raised |-> FALSE,
                                       result |-> s.summary]
                  /\ UNCHANGED settings
                  /\ IF s.invoked
                     THEN /\ requests' = [reqs EXCEPT ![r].pc = "invoking"]
                          /\ UNCHANGED loop
                     ELSE /\ requests' = extract_pdf_return(reqs, r, s.summary)
                          /\ loop' = 0
    /\ readResp' = NoRead
    /\ UNCHANGED <<dbVars, workerVars, fileVars>>

\* llm.invoke has returned or raised: summarize_text and process_pdf return
\* and the handler sends the result.
process_pdf_return(r) ==
    /\ requests[r].pc = "invoking"
    /\ loop = r
    /\ requests' = extract_pdf_return(requests, r, requests[r].summary)
    /\ loop' = 0
    /\ readResp' = NoRead
    /\ UNCHANGED <<dbVars, llmVars, workerVars, fileVars>>

-----------------------------------------------------------------------------
(* Retrieval: GET /documents/{id} and GET /documents                       *)

\* How far past the start a list request may skip.
MaxSkip == 2
Limits == {1, 100}
NoLimit == -1

RowsOf(rows, document_id) == {x \in rows : x.document_id = document_id}

\* PDFRepository.get_document_with_relations: the Document row, or none.
get_document_with_relations(document_id) ==
    {documents[i] : i \in {j \in DOMAIN documents : documents[j].id = document_id}}

\* The rows of a relationship in the order the session loads them.
Before(a, b) ==
    \/ a.page_number < b.page_number
    \/ a.page_number = b.page_number /\ a.pos < b.pos

Loaded(rows) ==
    [k \in 1..Cardinality(rows) |->
        CHOOSE x \in rows : Cardinality({y \in rows : Before(y, x)}) = k - 1]

TableRows(document_id) ==
    Loaded({[page_number |-> t.page_number, pos |-> t.table_index,
             table_data |-> t.table_data] : t \in RowsOf(tables, document_id)})

ImageRows(document_id) ==
    Loaded({[page_number |-> g.page_number, pos |-> g.image_index,
             filename |-> g.filename] : g \in RowsOf(images, document_id)})

\* A variant of get_pdf_by_id whose table loop assigns the page's list
\* instead of appending to it.
get_pdf_by_id_overwriting(document_id) ==
    LET found == get_document_with_relations(document_id)
        texts == RowsOf(text_contents, document_id)
        trows == TableRows(document_id)
        irows == ImageRows(document_id)
    IN  IF found = {}
        THEN NoResult
        ELSE [id |-> document_id,
              filename |-> (CHOOSE d \in found : TRUE).original_filename,
              text |-> [l \in {PageLabel(t.page_number) : t \in texts} |->
                           (CHOOSE t \in texts : PageLabel(t.page_number) = l).content],
              tables |-> [l \in {PageLabel(trows[k].page_number) : k \in DOMAIN trows} |->
                           LET ks == {k \in DOMAIN trows :
                                         PageLabel(trows[k].page_number) = l}
                               last == CHOOSE k \in ks : \A j \in ks : j <= k
                           IN  <<json_loads(trows[last].table_data)>>],
              images |-> [k \in DOMAIN irows |->
                           [url |-> get_image_url(irows[k].filename),
                            page |-> irows[k].page_number, index |-> irows[k].pos,
                            filename |-> irows[k].filename,
                            document_id |-> document_id]],
              summary |-> "",
              created_at |-> (CHOOSE d \in found : TRUE).created_at]

\* PDFService.get_pdf_by_id: the response rebuilt from the rows, NoResult
\* (None) when there is no such document.
get_pdf_by_id(document_id) ==
    LET found == get_document_with_relations(document_id)
        texts == RowsOf(text_contents, document_id)
        trows == TableRows(document_id)
        irows == ImageRows(document_id)
    IN  IF found = {}
        THEN NoResult
        ELSE [id |-> document_id,
              filename |-> (CHOOSE d \in found : TRUE).original_filename,
              text |-> [l \in {PageLabel(t.page_number) : t \in texts} |->
                           (CHOOSE t \in texts : PageLabel(t.page_number) = l).content],
              tables |-> [l \in {PageLabel(trows[k].page_number) : k \in DOMAIN trows} |->
                           LET ks == {k \in DOMAIN trows :
                                         PageLabel(trows[k].page_number) = l}
                               first == CHOOSE k \in ks : \A j \in ks : k <= j
                           IN  [n \in 1..Cardinality(ks) |->
                                   json_loads(trows[first + n - 1].table_data)]],
              images |-> [k \in DOMAIN irows |->
                           [url |-> get_image_url(irows[k].filename),
                            page |-> irows[k].page_number, index |-> irows[k].pos,
                            filename |-> irows[k].filename,
                            document_id |-> document_id]],
              summary |-> "",
              created_at |-> (CHOOSE d \in found : TRUE).created_at]

\* A variant of get_pdf_document that stamps the Document row it read.
get_pdf_document_touching(document_id) ==
    LET result == get_pdf_by_id(document_id)
    IN  /\ readResp' =
              IF result = NoResult
              THEN [op |-> "get", id |-> document_id, status |-> 404,
                    detail |-> "Document with ID " \o document_id \o " not found",
                    result |-> NoResult]
              ELSE [op |-> "get", id |-> document_id, status |-> 200, detail |-> "",
                    result |-> result]
        /\ documents' = [i \in DOMAIN documents |->
                            IF documents[i].id = document_id
                            THEN [documents[i] EXCEPT !.updated_at = clock + 1]
                            ELSE documents[i]]
        /\ UNCHANGED <<text_contents, tables, images, files>>

\* A variant of get_pdf_document without the `if not result` guard: the
\* missing document is answered like a stored one.
get_pdf_document_unguarded(document_id) ==
    /\ readResp' = [op |-> "get", id |-> document_id, status |-> 200, detail |-> "",
                    result |-> get_pdf_by_id(document_id)]
    /\ UNCHANGED <<documents, text_contents, tables, images, files>>

\* pdf_controller.get_pdf_document: the rebuilt result, or 404 naming the id.
get_pdf_document(document_id) ==
    LET result == get_pdf_by_id(document_id)
    IN  /\ readResp' =
              IF result = NoResult
              THEN [op |-> "get", id |-> document_id, status |-> 404,
                    detail |-> "Document with ID " \o document_id \o " not found",
                    result |-> NoResult]
              ELSE [op |-> "get", id |-> document_id, status |-> 200, detail |-> "",
                    result |-> result]
        /\ UNCHANGED <<documents, text_contents, tables, images, files>>

\* GET /documents/{document_id}, for the id of a document or an unknown id.
GetDocument ==
    /\ loop = 0
    /\ \E n \in 1..(MaxReqs + 1) : get_pdf_document(generate_uuid(n))
    /\ UNCHANGED <<requests, loop, clock, lastSweep, llmVars, workerVars>>

Min(a, b) == IF a < b THEN a ELSE b

\* PDFRepository.list_documents(db, skip, limit): offset/limit over the
\* documents; NoLimit stands for the call that passes neither.
list_documents(skip, limit) ==
    IF limit = NoLimit
    THEN SubSeq(documents, skip + 1, Len(documents))
    ELSE SubSeq(documents, skip + 1, Min(skip + limit, Len(documents)))

\* One entry of the listing: the document with its nested artifacts.
ListEntry(doc) ==
    [id |-> doc.id, filename |-> doc.filename,
     original_filename |-> doc.original_filename,
     created_at |-> doc.created_at, updated_at |-> doc.updated_at,
     images |-> ImageRows(doc.id),
     text_contents |-> RowsOf(text_contents, doc.id),
     tables |-> TableRows(doc.id)]

\* A variant of list_pdf_documents that counts the returned page.
list_pdf_documents_page_total(skip, limit) ==
    LET page == list_documents(skip, limit)
    IN  [documents |-> [i \in DOMAIN page |-> ListEntry(page[i])],
         total |-> Len(page), skip |-> skip, limit |-> limit]

\* pdf_controller.list_pdf_documents
list_pdf_documents(skip, limit) ==
    LET page == list_documents(skip, limit)
        total == Len(list_documents(0, NoLimit))
    IN  [documents |-> [i \in DOMAIN page |-> ListEntry(page[i])],
         total |-> total, skip |-> skip, limit |-> limit]

\* GET /documents?skip=&limit=
ListDocuments ==
    /\ loop = 0
    /\ \E skip \in 0..MaxSkip, limit \in Limits :
          readResp' = [op |-> "list", query |-> [skip |-> skip, limit |-> limit],
                       body |-> list_pdf_documents(skip, limit)]
    /\ UNCHANGED <<requests, loop, dbVars, llmVars, workerVars, fileVars>>

\* The filenames a download may ask for: those an upload can give an image,
\* and one no upload gives.
DownloadNames ==
    {image_filename(generate_uuid(n), p, 1, ImageExt) : n \in ReqIds, p \in 1..MaxPages}
        \cup {"logo.png"}

\* os.path.exists(os.path.join(settings.IMAGE_FOLDER, filename))
exists(filename) ==
    \E f \in files : f.folder = "images" /\ f.name = filename

\* A variant of download_image that hands the path to FileResponse without
\* looking for the file: the missing file surfaces as an I/O error, which the
\* request middleware answers 500.
download_image_unchecked(filename) ==
    IF ~exists(filename)
    THEN [status |-> 500, detail |-> "Internal server error"]
    ELSE [status |-> 200, detail |-> ""]

\* pdf_controller.download_image: 404 when the file is not in the image
\* folder, the file otherwise.
download_image(filename) ==
    IF ~exists(filename)
    THEN [status |-> 404, detail |-> "Image not found: " \o filename]
    ELSE [status |-> 200, detail |-> ""]

\* GET /images/{filename}
DownloadImage ==
    /\ loop = 0
    /\ \E filename \in DownloadNames :
          LET resp == download_image(filename)
          IN  readResp' = [op |-> "download", filename |-> filename,
                           status |-> resp.status, detail |-> resp.detail]
    /\ UNCHANGED <<requests, loop, dbVars, llmVars, workerVars, fileVars>>

\* main.health_check: GET /health
health_check ==
    /\ loop = 0
    /\ readResp' = [op |-> "health", status |-> 200, body |-> [status |-> "healthy"]]
    /\ UNCHANGED <<requests, loop, dbVars, llmVars, workerVars, fileVars>>

PdfAtImport ==
    /\ documents = <<>>
    /\ text_contents = {}
    /\ tables = {}
    /\ images = {}
    /\ requests = [r \in ReqIds |-> NewRequest]
    /\ loop = 0
    /\ readResp = NoRead

-----------------------------------------------------------------------------
(* The retention sweeper (app/workers/file_cleanup.py) and the application *)
(* lifecycle that starts and stops it (app/main.py)                        *)

\* A variant of the default retention: four minutes.
FILE_RETENTION_MINUTES_four == 10 - 6

\* Settings.FILE_RETENTION_MINUTES
FILE_RETENTION_MINUTES == 10

\* How far the clock runs, in minutes.
MaxClock == 12
\* How many files the folders hold at once in the sweeper's own specification.
MaxFiles == 2

\* How many removals may fail in one sweep.
MaxFailures == 1

JobId == "cleanup_old_files"

STOPPED == [running |-> FALSE, jobs |-> {}]
RUNNING == [running |-> TRUE, jobs |-> {JobId}]

\* file_cleanup_worker.retention_minutes
retention_minutes == FILE_RETENTION_MINUTES

\* FileCleanupWorker.start(): registers the recurring job and starts the
\* scheduler, unless the scheduler is already running.
start(w) ==
    IF w.running
    THEN w
    ELSE [running |-> TRUE, jobs |-> w.jobs \cup {JobId}]

\* FileCleanupWorker.stop(): shuts the scheduler down, which cancels its job,
\* if it is running.
stop(w) ==
    IF w.running
    THEN [running |-> FALSE, jobs |-> {}]
    ELSE w

NoWorkerCall == [op |-> "none", before |-> STOPPED, raised |-> FALSE]

\* A variant of startup_event that leaves the sweeper alone.
startup_event_without_worker ==
    /\ appPhase = "created"
    /\ appPhase' = "started"
    /\ UNCHANGED <<file_cleanup_worker, workerCall>>

\* main.startup_event: logs the configuration, then file_cleanup_worker.start()
\* inside try/except.
startup_event ==
    /\ appPhase = "created"
    /\ appPhase' = "started"
    /\ file_cleanup_worker' = start(file_cleanup_worker)
    /\ workerCall' = [op |-> "start", before |-> file_cleanup_worker, raised |-> FALSE]

\* main.shutdown_event: file_cleanup_worker.stop() inside try/except.
shutdown_event ==
    /\ appPhase = "started"
    /\ appPhase' = "stopped"
    /\ file_cleanup_worker' = stop(file_cleanup_worker)
    /\ workerCall' = [op |-> "stop", before |-> file_cleanup_worker, raised |-> FALSE]

\* The application starts.
Startup ==
    /\ startup_event
    /\ UNCHANGED <<llmVars, fileVars, pdfVars>>

\* The application shuts down.
Shutdown ==
    /\ shutdown_event
    /\ UNCHANGED <<llmVars, fileVars, pdfVars>>

\* Some other caller invokes file_cleanup_worker.start().
WorkerStart ==
    /\ file_cleanup_worker' = start(file_cleanup_worker)
    /\ workerCall' = [op |-> "start", before |-> file_cleanup_worker, raised |-> FALSE]
    /\ UNCHANGED <<appPhase, llmVars, fileVars, pdfVars>>

\* Some other caller invokes file_cleanup_worker.stop().
WorkerStop ==
    /\ file_cleanup_worker' = stop(file_cleanup_worker)
    /\ workerCall' = [op |-> "stop", before |-> file_cleanup_worker, raised |-> FALSE]
    /\ UNCHANGED <<appPhase, llmVars, fileVars, pdfVars>>

Age(f) == clock - f.mtime

\* The files a sweep at this moment finds older than the retention age.
Aged == {f \in files : Age(f) > retention_minutes}

\* The recurring job: every file of the upload and image folders whose age
\* exceeds the retention is removed; a removal that fails is logged and the
\* sweep goes on with the remaining files.
cleanup_old_files(failed) ==
    /\ files' = files \ {f \in Aged : f.name \notin failed}
    /\ lastSweep' = [at |-> clock, failed |-> failed,
                     removed |-> {Age(f) : f \in {g \in Aged : g.name \notin failed}}]

\* The scheduler fires the sweep job.
Sweep ==
    /\ file_cleanup_worker.running
    /\ JobId \in file_cleanup_worker.jobs
    /\ \E failedFiles \in {x \in SUBSET Aged : Cardinality(x) <= MaxFailures} :
          cleanup_old_files({f.name : f \in failedFiles})
    /\ UNCHANGED <<clock, llmVars, workerVars, pdfVars>>

\* A minute passes.
Tick ==
    /\ clock < MaxClock
    /\ clock' = clock + 1
    /\ UNCHANGED <<files, lastSweep, llmVars, workerVars, pdfVars>>

\* The request path writes a file (an upload, or an extracted image).
FileWritten ==
    /\ Cardinality(files) < MaxFiles
    /\ \E folder \in {"uploads", "images"}, name \in {"a", "b"} :
          /\ \A f \in files : f.name # name
          /\ files' = files \cup {[folder |-> folder, name |-> name, mtime |-> clock]}
    /\ UNCHANGED <<clock, lastSweep, llmVars, workerVars, pdfVars>>

WorkerAtImport ==
    /\ file_cleanup_worker = STOPPED
    /\ appPhase = "created"
    /\ workerCall = NoWorkerCall

FilesAtImport ==
    /\ clock = 0
    /\ files = {}
    /\ lastSweep = [at |-> 0, failed |-> {}, removed |-> {}]

InitWorker ==
    /\ LLMAtImport
    /\ WorkerAtImport
    /\ FilesAtImport
    /\ PdfAtImport

NextWorker ==
    \/ Startup
    \/ Shutdown
    \/ WorkerStart
    \/ WorkerStop
    \/ Sweep
    \/ Tick
    \/ FileWritten

SpecWorker == InitWorker /\ [][NextWorker]_vars

-----------------------------------------------------------------------------
(* C5: the sweeper is always STOPPED or RUNNING; start() in STOPPED moves  *)
(* to RUNNING and registers the sweep job, start() in RUNNING changes      *)
(* nothing (one job stays registered), stop() in RUNNING moves to STOPPED  *)
(* and cancels the job, stop() in STOPPED changes nothing and raises no    *)
(* error; the application calls start() at startup and stop() at shutdown. *)

C5_SweeperStateMachine ==
    [][ /\ file_cleanup_worker \in {STOPPED, RUNNING}
        /\ file_cleanup_worker' \in {STOPPED, RUNNING}
        /\ workerCall' # workerCall =>
              /\ workerCall'.before = file_cleanup_worker
              /\ ~workerCall'.raised
              /\ workerCall'.op = "start" => file_cleanup_worker' = RUNNING
              /\ workerCall'.op = "stop" => file_cleanup_worker' = STOPPED
        /\ workerCall' = workerCall => file_cleanup_worker' = file_cleanup_worker
        /\ (appPhase = "created" /\ appPhase' = "started")
              => workerCall'.op = "start" /\ file_cleanup_worker' = RUNNING
        /\ (appPhase = "started" /\ appPhase' = "stopped")
              => workerCall'.op = "stop" /\ file_cleanup_worker' = STOPPED ]_vars

\* The application has shut down: stop() found the sweeper RUNNING, as
\* startup left it, and moved it to STOPPED.
C5_Witness ==
    /\ appPhase = "stopped"
    /\ workerCall.op = "stop"
    /\ workerCall.before = RUNNING
    /\ file_cleanup_worker = STOPPED

-----------------------------------------------------------------------------
(* C6: a file of the upload or image folder is deleted only if its age     *)
(* exceeds the retention (10 minutes): a younger file is never deleted,    *)
(* and an older file present when a sweep runs is deleted by that sweep    *)
(* (a file 11 minutes old is deleted, a file 5 minutes old is kept).       *)

SweepRan == lastSweep' # lastSweep

OnlyAgedFilesGo ==
    /\ \A f \in files \ files' : Age(f) > retention_minutes
    /\ \A f \in files : Age(f) = 5 => f \in files'

-----------------------------------------------------------------------------
(* The summarization adapter on its own                                    *)

InitLLM ==
    /\ LLMAtImport
    /\ WorkerAtImport
    /\ FilesAtImport
    /\ PdfAtImport

NextLLM ==
    \/ GetLLM
    \/ ResetLLM
    \/ SummarizeText
    \/ GetLLMStatus
    \/ ChangeSettings

SpecLLM == InitLLM /\ [][NextLLM]_vars

-----------------------------------------------------------------------------
(* C4: once get_llm has succeeded, every later get_llm, summarize_text and *)
(* is_available call uses that same backend instance whatever the settings *)
(* have become, until reset_llm; the first get_llm after a reset selects   *)
(* the provider again from the settings as they are then.                  *)

LLMOps == {"get_llm", "summarize_text", "is_available"}

\* summarize_text returns before get_llm when the text is empty.
UsesNoBackend(call) == call.op = "summarize_text" /\ call.arg = ""

SelectedFrom(llm, s) ==
    \/ llm.kind = "ollama" /\ lower(s.LLM_PROVIDER) = OLLAMA /\ llm.model = s.OLLAMA_MODEL
    \/ /\ llm.kind = "openrouter"
       /\ lower(s.LLM_PROVIDER) = OPENROUTER
       /\ llm.model = s.OPENROUTER_MODEL
       /\ llm.api_key = s.OPENROUTER_API_KEY

C4_ProviderCached ==
    [][ /\ (_llm # NoLLM /\ llmCall'.op # "reset_llm")
            => /\ _llm' = _llm
               /\ (llmCall'.op \in LLMOps /\ ~UsesNoBackend(llmCall')
                      => llmCall'.used = _llm /\ ~llmCall'.raised)
        /\ (_llm = NoLLM /\ llmCall'.op = "get_llm" /\ ~llmCall'.raised)
            => /\ _llm' = llmCall'.used
               /\ _llm'.serial = nbuilt + 1
               /\ SelectedFrom(_llm', settings) ]_vars

\* The backend was selected again after a reset (it is the second instance),
\* the settings have since moved to the other provider, and a summarize_text
\* call has just used the cached instance.
C4_Witness ==
    /\ _llm # NoLLM
    /\ _llm.serial = 2
    /\ ~SelectedFrom(_llm, settings)
    /\ llmCall.op = "summarize_text"
    /\ llmCall.used = _llm

-----------------------------------------------------------------------------
(* The running service: uploads, retrievals and the sweeper                *)

\* The LLM settings the service may have been started with.
ServiceSettings ==
    { DefaultSettings,
      [DefaultSettings EXCEPT !.LLM_PROVIDER = OPENROUTER],
      [DefaultSettings EXCEPT !.LLM_PROVIDER = <<"g","p","t">>] }

\* More than the retention age passes while the service runs.
LongWait ==
    /\ clock + retention_minutes + 1 <= MaxClock
    /\ clock' = clock + retention_minutes + 1
    /\ UNCHANGED <<files, lastSweep, llmVars, workerVars, pdfVars>>

\* The service after startup_event: the sweeper runs, nothing is stored.
Init ==
    /\ settings \in ServiceSettings
    /\ _llm = NoLLM
    /\ nbuilt = 0
    /\ llmCall = NoCall
    /\ file_cleanup_worker = RUNNING
    /\ appPhase = "started"
    /\ workerCall = [op |-> "start", before |-> STOPPED, raised |-> FALSE]
    /\ FilesAtImport
    /\ PdfAtImport

Next ==
    \/ \E r \in ReqIds : extract_pdf(r)
    \/ \E r \in ReqIds : save_upload_file(r)
    \/ \E r \in ReqIds : process_pdf_create(r)
    \/ \E r \in ReqIds : process_pdf_extract(r)
    \/ \E r \in ReqIds : process_pdf_save(r)
    \/ \E r \in ReqIds : process_pdf_summary(r)
    \/ \E r \in ReqIds : process_pdf_return(r)
    \/ GetDocument
    \/ ListDocuments
    \/ DownloadImage
    \/ health_check

Spec == Init /\ [][Next]_vars

\* The uploads the retention specification follows.
SweptReqs == {1}

\* The same service with the clock running and the sweeper at work.
NextRetention ==
    \/ \E r \in SweptReqs : extract_pdf(r)
    \/ \E r \in SweptReqs : save_upload_file(r)
    \/ \E r \in SweptReqs : process_pdf_create(r)
    \/ \E r \in SweptReqs : process_pdf_extract(r)
    \/ \E r \in SweptReqs : process_pdf_save(r)
    \/ \E r \in SweptReqs : process_pdf_summary(r)
    \/ \E r \in SweptReqs : process_pdf_return(r)
    \/ GetDocument
    \/ ListDocuments
    \/ DownloadImage
    \/ health_check
    \/ Sweep
    \/ LongWait

SpecRetention == Init /\ [][NextRetention]_vars


-----------------------------------------------------------------------------
(* C1: a POST /extract whose filename does not end in ".pdf", letter case  *)
(* ignored, is answered 400 before the upload is saved or any extraction   *)
(* step runs; no Document row is created and the stored documents are the  *)
(* same after the request as before it.                                    *)

EndsInPdf(name) ==
    /\ Len(name) >= 4
    /\ name[Len(name) - 3] = "."
    /\ LowerChar(name[Len(name) - 2]) = "p"
    /\ LowerChar(name[Len(name) - 1]) = "d"
    /\ LowerChar(name[Len(name)]) = "f"

Arrives(r) == requests[r].pc = "new" /\ requests'[r].pc # "new"

C1_NonPdfRejected ==
    [][ \A r \in ReqIds :
          /\ (Arrives(r) /\ ~EndsInPdf(requests'[r].filename)) =>
                /\ requests'[r].pc = "done"
                /\ requests'[r].status = 400
                /\ requests'[r].detail = "Only PDF files are supported."
                /\ UNCHANGED <<documents, text_contents, tables, images, files>>
          /\ (requests[r].pc # "new" /\ ~EndsInPdf(requests[r].filename)) =>
                /\ requests'[r] = requests[r]
                /\ requests[r].document_id = ""
                /\ requests[r].file_info.stored = "" ]_vars

\* An upload named "pdf" (the letters without the dot) was answered 400
\* while a document of an earlier upload is stored.
C1_Witness ==
    \E r \in ReqIds :
        /\ requests[r].filename = <<"p","d","f">>
        /\ requests[r].pc = "done"
        /\ requests[r].status = 400
        /\ Len(documents) = 1

-----------------------------------------------------------------------------
(* C2: once the extension check has passed, a failure raised while saving  *)
(* the upload, creating the Document, extracting or persisting is answered *)
(* 400 with one detail message that contains the error text; it is not     *)
(* answered with another status (not 500) and nothing is retried.          *)

C2_FailuresAnswered400 ==
    [][ \A r \in ReqIds :
          /\ requests'[r].status \in {0, 200, 400}
          /\ (requests[r].error = "" /\ requests'[r].error # "") =>
                /\ requests'[r].pc = "done"
                /\ requests'[r].status = 400
                /\ requests'[r].detail = "Error processing PDF: " \o requests'[r].error
                /\ requests'[r].result = NoResult
          /\ requests[r].error # "" =>
                /\ requests'[r] = requests[r]
                /\ loop # r ]_vars

\* An upload failed while its image rows were being saved, after its text
\* rows were written, and was answered 400.
C2_Witness ==
    \E r \in ReqIds :
        /\ requests[r].error = "cannot save images"
        /\ requests[r].status = 400
        /\ RowsOf(text_contents, requests[r].document_id) # {}

-----------------------------------------------------------------------------
(* C3: a summarization failure never fails the upload: when the backend    *)
(* cannot be constructed or its invocation raises, process still returns a *)
(* successful result with no summary, and every text, image and table row  *)
(* extracted for the document is persisted.                                *)

Persisted(result) ==
    /\ {PageNumber(l) : l \in DOMAIN result.text}
          = {t.page_number : t \in RowsOf(text_contents, result.id)}
    /\ \A k \in DOMAIN result.images :
          \E g \in RowsOf(images, result.id) :
              /\ g.filename = result.images[k].filename
              /\ g.page_number = result.images[k].page
              /\ g.image_index = result.images[k].index
    /\ \A l \in DOMAIN result.tables : \A k \in DOMAIN result.tables[l] :
          \E t \in RowsOf(tables, result.id) :
              /\ t.page_number = PageNumber(l)
              /\ t.table_index = k - 1
              /\ json_loads(t.table_data) = result.tables[l][k]

SummaryFailed(r) == requests[r].llm \in {"no backend", "invoke raised"}

C3_SummaryFailureAbsorbed ==
    \A r \in ReqIds :
        (requests[r].pc = "done" /\ SummaryFailed(r)) =>
            /\ requests[r].status = 200
            /\ requests[r].error = ""
            /\ requests[r].result.summary = ""
            /\ Persisted(requests[r].result)

\* An upload with images and tables whose summarization failed has been
\* answered.
C3_Witness ==
    \E r \in ReqIds :
        /\ requests[r].pc = "done"
        /\ SummaryFailed(r)
        /\ requests[r].include_summary
        /\ requests[r].result.images # <<>>
        /\ DOMAIN requests[r].result.tables # {}

-----------------------------------------------------------------------------
(* C7: for every document process returned successfully, getById returns a *)
(* result with as many text page entries, as many table page entries (and  *)
(* tables on each page) and as many images as process returned, and with   *)
(* no summary.                                                             *)

Processed(r) == requests[r].pc = "done" /\ requests[r].status = 200

SameCounts(p, g) ==
    /\ g # NoResult
    /\ g.id = p.id
    /\ Cardinality(DOMAIN g.text) = Cardinality(DOMAIN p.text)
    /\ Cardinality(DOMAIN g.tables) = Cardinality(DOMAIN p.tables)
    /\ \A l \in DOMAIN p.tables :
          l \in DOMAIN g.tables /\ Len(g.tables[l]) = Len(p.tables[l])
    /\ Len(g.images) = Len(p.images)
    /\ g.summary = ""

C7_RoundTrip ==
    \A r \in ReqIds :
        Processed(r) =>
            /\ SameCounts(requests[r].result, get_pdf_by_id(requests[r].result.id))
            /\ (readResp.op = "get" /\ readResp.id = requests[r].result.id) =>
                  readResp.status = 200 /\ SameCounts(requests[r].result, readResp.result)

\* GET /documents/{id} has answered for a document that process returned
\* with a summary, two pages, images and two tables on a page.
C7_Witness ==
    \E r \in ReqIds :
        /\ Processed(r)
        /\ requests[r].result.summary # ""
        /\ Cardinality(DOMAIN requests[r].result.text) = 2
        /\ Len(requests[r].result.images) = 2
        /\ \E l \in DOMAIN requests[r].result.tables :
              Len(requests[r].result.tables[l]) = 2
        /\ readResp.op = "get"
        /\ readResp.id = requests[r].result.id

-----------------------------------------------------------------------------
(* C8: getById mutates nothing: the Document, TextPage, Table and Image    *)
(* rows and the files on disk are as before, so two getById calls with the *)
(* same id and no write in between return identical content.               *)

C8_ReadOnly ==
    [][ /\ readResp'.op = "get" =>
              UNCHANGED <<documents, text_contents, tables, images, files>>
        /\ (readResp.op = "get" /\ readResp'.op = "get" /\ readResp'.id = readResp.id)
              => readResp' = readResp ]_vars

\* GET /documents/{id} has answered 200 with the text, tables and images of
\* a stored document while a second document is stored too.
C8_Witness ==
    /\ readResp.op = "get"
    /\ readResp.status = 200
    /\ readResp.result.images # <<>>
    /\ DOMAIN readResp.result.tables # {}
    /\ Len(documents) = 2

-----------------------------------------------------------------------------
(* C9: for every skip >= 0 and limit in [1,100], list returns total equal  *)
(* to the number of all stored documents and echoes skip and limit; when   *)
(* skip is at least that number the returned list is empty and total is    *)
(* still the full count.                                                   *)

-----------------------------------------------------------------------------
(* C10: every image link process produces has a filename different from    *)
(* that of every other image link of the same and of any other processed   *)
(* document, and the file of that name is in the image folder at the       *)
(* moment process returns.                                                 *)

Returns(r) ==
    requests[r].pc # "done" /\ requests'[r].pc = "done" /\ requests'[r].status = 200

ImageFileExists(name) ==
    \E f \in files' : f.folder = "images" /\ f.name = name

\* The links of every processed document, each with the request it is from.
AllLinks ==
    UNION {{<<r, k>> : k \in DOMAIN requests'[r].result.images}
           : r \in {q \in ReqIds : requests'[q].pc = "done" /\ requests'[q].status = 200}}

C10_ImageLinks ==
    [][ \A r \in ReqIds :
          Returns(r) =>
              /\ \A a \in AllLinks, b \in AllLinks :
                    a # b => requests'[a[1]].result.images[a[2]].filename
                                # requests'[b[1]].result.images[b[2]].filename
              /\ \A k \in DOMAIN requests'[r].result.images :
                    ImageFileExists(requests'[r].result.images[k].filename) ]_vars

-----------------------------------------------------------------------------
(* C11: GET /images/{filename} answers 404 whenever no file of that name   *)
(* is in the image folder, 200 otherwise, and never an unhandled I/O       *)
(* error; the Image row of a swept file stays, so getById of its document  *)
(* still returns one link per Image row, swept files included, while the   *)
(* download of such a link answers 404.                                    *)

Downloads == readResp' # readResp /\ readResp'.op = "download"

Gets == readResp' # readResp /\ readResp'.op = "get" /\ readResp'.status = 200

InImageFolder(name) == \E f \in files : f.folder = "images" /\ f.name = name

C11_DownloadOfSweptImage ==
    [][ /\ Downloads =>
              /\ readResp'.status \in {200, 404}
              /\ readResp'.status = 404 <=> ~InImageFolder(readResp'.filename)
        /\ Gets =>
              \A g \in RowsOf(images, readResp'.id) :
                 \E k \in DOMAIN readResp'.result.images :
                    readResp'.result.images[k].filename = g.filename ]_vars

\* A sweep has removed an aged image file; the download of its name was
\* answered 404 while getById of its document still returns the link.
C11_Witness ==
    /\ readResp.op = "download"
    /\ readResp.status = 404
    /\ lastSweep.removed # {}
    /\ \E g \in images :
          /\ g.filename = readResp.filename
          /\ LET result == get_pdf_by_id(g.document_id)
             IN  \E k \in DOMAIN result.images :
                    result.images[k].filename = readResp.filename

-----------------------------------------------------------------------------
(* C12: GET /documents/{id} for an id that is not the identifier of a      *)
(* stored Document answers 404 with a detail message that contains the id; *)
(* for the id of a stored Document it answers 200 with the result rebuilt  *)
(* for that id, never 404.                                                 *)

StoredIds == {documents[i].id : i \in DOMAIN documents}

C12_UnknownIdIs404 ==
    readResp.op = "get" =>
        IF readResp.id \in StoredIds
        THEN /\ readResp.status = 200
             /\ readResp.result # NoResult
             /\ readResp.result.id = readResp.id
        ELSE /\ readResp.status = 404
             /\ readResp.detail = "Document with ID " \o readResp.id \o " not found"
             /\ readResp.result = NoResult

\* With one document stored, GET /documents/{id} for another id was
\* answered 404.
C12_Witness ==
    /\ readResp.op = "get"
    /\ readResp.status = 404
    /\ readResp.id \notin StoredIds
    /\ Len(documents) = 1

-----------------------------------------------------------------------------
(* C13: within one document's processing the Summarization Adapter is      *)
(* invoked only when the summary was asked for, and only after the         *)
(* extraction has completed and the TextPage, Image and Table rows of what *)
(* it extracted have been persisted; when include_summary is false the     *)
(* adapter is never invoked and the summary is absent.                     *)

\* The adapter is called on behalf of request r in this step.
AdapterCalled(r) == requests[r].llm = "not called" /\ requests'[r].llm # "not called"

\* Every page, image and table request r extracted has its row.
ExtractionPersisted(r) ==
    LET req == requests[r]
    IN  /\ req.document_id # ""
        /\ \A l \in DOMAIN req.text_data :
              \E t \in text_contents :
                 t.document_id = req.document_id /\ PageLabel(t.page_number) = l
        /\ \A k \in DOMAIN req.image_links :
              \E g \in images :
                 g.document_id = req.document_id
                    /\ g.filename = req.image_links[k].filename
        /\ \A l \in DOMAIN req.table_data : \A k \in DOMAIN req.table_data[l] :
              \E t \in tables :
                 /\ t.document_id = req.document_id
                 /\ PageLabel(t.page_number) = l
                 /\ t.table_index = k - 1

C13_SummaryAfterPersistence ==
    [][ /\ \A r \in ReqIds :
              AdapterCalled(r) =>
                 /\ requests[r].include_summary
                 /\ requests[r].pc \notin {"new", "saving", "saved", "created"}
                 /\ ExtractionPersisted(r)
        /\ <<_llm, nbuilt, llmCall>>' # <<_llm, nbuilt, llmCall>>
              => \E r \in ReqIds : AdapterCalled(r)
        /\ \A r \in ReqIds :
              (requests'[r].pc = "done" /\ ~requests'[r].include_summary) =>
                 /\ requests'[r].llm = "not called"
                 /\ requests'[r].status = 200 => requests'[r].result.summary = "" ]_vars

\* An upload with pages, images and tables asked for its summary; the
\* backend was invoked and the response carries the summary.
C13_Witness ==
    \E r \in ReqIds :
        /\ requests[r].pc = "done"
        /\ requests[r].status = 200
        /\ requests[r].llm = "invoked"
        /\ requests[r].result.summary # ""
        /\ requests[r].result.images # <<>>
        /\ DOMAIN requests[r].result.tables # {}
        /\ RowsOf(text_contents, requests[r].result.id) # {}
        /\ RowsOf(images, requests[r].result.id) # {}
        /\ RowsOf(tables, requests[r].result.id) # {}

-----------------------------------------------------------------------------
(* C14: a Document's extraction artifacts are written all-or-nothing per   *)
(* upload: once a process call has ended, a call that succeeded has left   *)
(* the Document row with all of its TextPage, Image and Table rows and its *)
(* image files, and a call that failed, at whatever step, has left none of *)
(* them.                                                                   *)

\* The image files in the folder that carry this document's id.
ImageFilesOf(document_id) ==
    {f \in files : /\ f.folder = "images"
                   /\ \E p \in 1..MaxPages, i \in 1..MaxPages :
                         f.name = image_filename(document_id, p, i, ImageExt)}

NoArtifacts(document_id) ==
    /\ document_id \notin {documents[i].id : i \in DOMAIN documents}
    /\ RowsOf(text_contents, document_id) = {}
    /\ RowsOf(images, document_id) = {}
    /\ RowsOf(tables, document_id) = {}
    /\ ImageFilesOf(document_id) = {}

AllArtifacts(result) ==
    /\ result.id \in {documents[i].id : i \in DOMAIN documents}
    /\ Persisted(result)
    /\ \A k \in DOMAIN result.images :
          \E f \in ImageFilesOf(result.id) : f.name = result.images[k].filename

C14_AllOrNothing ==
    \A r \in ReqIds :
        (requests[r].pc = "done" /\ requests[r].file_info.stored # "") =>
            IF requests[r].status = 200
            THEN AllArtifacts(requests[r].result)
            ELSE NoArtifacts(requests[r].document_id)

-----------------------------------------------------------------------------
(* C15: while the processing of one request is blocked inside PDF parsing, *)
(* table extraction, image decode/encode, a database call or the LLM       *)
(* invocation, an unrelated request can be started: the health probe, a    *)
(* retrieval, a listing, an image download and the next upload are each    *)
(* able to run.                                                            *)

\* Request r is inside process_pdf.
Processing(r) ==
    requests[r].pc \in {"saved", "created", "extracted", "persisted", "invoking"}

\* Upload q has not arrived yet and is the next to arrive.
NextUpload(q) ==
    requests[q].pc = "new" /\ \A p \in 1..(q - 1) : requests[p].pc # "new"

C15_SlowCallDoesNotBlock ==
    \A r \in ReqIds :
        Processing(r) =>
            /\ ENABLED health_check
            /\ ENABLED GetDocument
            /\ ENABLED ListDocuments
            /\ ENABLED DownloadImage
            /\ \A q \in ReqIds \ {r} : NextUpload(q) => ENABLED extract_pdf(q)

-----------------------------------------------------------------------------
(* C16: a failed backend construction is never cached. A get_llm that      *)
(* raises (unsupported provider name, or openrouter with an empty API key) *)
(* leaves the cached handle empty; every get_llm, summarize_text or        *)
(* is_available call that finds the handle empty constructs from the       *)
(* settings as they are at that call, so is_available answers true as soon *)
(* as the settings are valid, with no reset_llm; is_available never raises *)
(* and answers false exactly when no backend can be had.                   *)

\* The settings name a provider that can be constructed.
Constructible(s) ==
    \/ lower(s.LLM_PROVIDER) = OLLAMA
    \/ lower(s.LLM_PROVIDER) = OPENROUTER /\ s.OPENROUTER_API_KEY # ""

\* This step is a call that asks get_llm for the backend.
AsksForBackend ==
    /\ llmCall' # llmCall
    /\ \/ llmCall'.op \in {"get_llm", "is_available"}
       \/ llmCall'.op = "summarize_text" /\ llmCall'.arg # ""

C16_FailureNotCached ==
    [][ AsksForBackend =>
          /\ (llmCall'.op = "get_llm" /\ llmCall'.raised) =>
                 _llm = NoLLM /\ _llm' = NoLLM /\ ~Constructible(settings)
          /\ _llm = NoLLM =>
                 IF Constructible(settings)
                 THEN /\ _llm' # NoLLM
                      /\ SelectedFrom(_llm', settings)
                      /\ llmCall'.used = _llm'
                      /\ ~llmCall'.raised
                 ELSE /\ _llm' = NoLLM
                      /\ llmCall'.used = NoLLM
          /\ llmCall'.op = "is_available" =>
                 /\ ~llmCall'.raised
                 /\ llmCall'.result =
                       IF _llm # NoLLM \/ Constructible(settings) THEN "true" ELSE "false"
          /\ llmCall'.op # "get_llm" => ~llmCall'.raised ]_vars

\* With openrouter selected and no API key, is_available answered false and
\* the handle is still empty although a backend had been built before a
\* reset_llm: the failed construction left nothing behind.
C16_Witness ==
    /\ llmCall.op = "is_available"
    /\ llmCall.result = "false"
    /\ _llm = NoLLM
    /\ nbuilt = 1
    /\ lower(settings.LLM_PROVIDER) = OPENROUTER
    /\ settings.OPENROUTER_API_KEY = ""

====
